---- MODULE Spec2Model ----
(***************************************************************************)
(* Playback / playlist coordination of the Aurora music player.           *)
(*                                                                         *)
(* Threads: the UI event loop ("ui": the slint callbacks on_track_selected,*)
(* on_next, on_prev, on_play_pause and the closures queued with            *)
(* invoke_from_event_loop), the tokio auto-advance loop ("poll") and the   *)
(* audio device thread that consumes the rodio sink (TrackCompletes).      *)
(* Shared state: PlayerState behind state (Mutex), the rodio Sink behind   *)
(* AudioEngine.sink (Mutex).  Tracks are identified by their index in      *)
(* PlayerState.tracks, 0-based as in the code.                             *)
(***************************************************************************)
EXTENDS Integers, Sequences, FiniteSets, TLC

\* ---- bounds of the model ------------------------------------------------
MaxTracks == 2     \* longest playlist loaded from the library
MaxPending == 1    \* closures queued to the event loop and not yet run
MaxTicks == 2      \* the tick counter saturates here
MaxLog == 1        \* the error-log counter saturates here
MaxRowId == 6      \* no scan or add_track call starts once a track id reached this
MaxLevel == 150    \* largest volume passed to set_volume, in hundredths
MaxBelow == 30     \* how far below 0 a volume passed to set_volume goes, in hundredths

Threads == {"ui", "poll"}
NoTrack == -1
UnitGain == 100    \* the gain 1.0 of a new Sink, in hundredths

VARIABLES
    main_pc,        \* "start" | "running" | "aborted": position of main()
    ntracks,        \* state.tracks.len()
    readable,       \* indexes of the tracks File::open + Decoder::new accept
    current_index,  \* state.current_index
    state_lock,     \* holder of the PlayerState mutex: "none" | "ui" | "poll"
    sink_lock,      \* holder of the AudioEngine.sink mutex
    sink_queue,     \* sources queued in the rodio Sink (head is audible)
    sink_paused,    \* the Sink's pause control
    is_paused,      \* the flag captured by the on_play_pause closure
    pc,             \* position of each thread
    ui_op,          \* the callback the UI thread is running
    ui_index,       \* argument of on_track_selected
    pf_track,       \* per thread: the track passed to play_file
    pf_ok,          \* per thread: play_file returned Ok
    pf_stopped,     \* per thread: play_file took the sink.stop() branch
    was_playing,    \* local of the auto-advance loop
    is_busy,        \* local of the auto-advance loop
    ui_title,       \* track whose title/artist the window shows
    event_queue,    \* closures queued by invoke_from_event_loop (track shown)
    error_log,      \* log::error! calls made (saturating)
    expected,       \* history: (Next - Prev + completions) mod len; NoTrack once a select was made
    ticks,          \* history: poll ticks finished (saturating)
    user_acted,     \* history: a UI callback has been invoked
    advanced,       \* history: the poll loop advanced since the last completion
    stopped,        \* history: AudioEngine::stop emptied the sink and nothing was loaded since
    observed,       \* history: a poll tick saw the sink busy since the last successful dispatch
    sink_volume,    \* the Sink's gain, in hundredths (100 is 1.0)
    unreadable_dirs,\* file system: directories whose read_dir fails
    bad_tags,       \* file system: files lofty::read_from_path rejects
    artists,        \* table artists: rows [id, name]
    albums,         \* table albums: rows [id, title, artist_id]
    track_rows,     \* table tracks: rows [id, path, title, artist_id, album_id]
    seq,            \* sqlite_sequence: the largest id each table has used
    scan_stack,     \* scan_directory: the active calls, innermost last: [dir, pos]
    scan_result,    \* result of the last finished scan: "none" | "ok" | "err"
    scans_done,     \* history: scans finished (saturating at 2)
    first_ids       \* history: path -> id when the first scan finished

vars == <<main_pc, ntracks, readable, current_index, state_lock, sink_lock,
          sink_queue, sink_paused, is_paused, pc, ui_op, ui_index, pf_track,
          pf_ok, pf_stopped, was_playing, is_busy, ui_title, event_queue,
          error_log, expected, ticks, user_acted, advanced, stopped,
          observed, sink_volume, unreadable_dirs, bad_tags, artists, albums,
          track_rows, seq, scan_stack, scan_result, scans_done, first_ids>>

playlistVars == <<ntracks, readable>>
sinkVars == <<sink_lock, sink_queue, sink_paused>>
pfVars == <<pf_track, pf_ok, pf_stopped>>
pollVars == <<was_playing, is_busy>>
histVars == <<expected, ticks, user_acted, advanced, stopped, observed>>
fsVars == <<unreadable_dirs, bad_tags>>
catalogVars == <<artists, albums, track_rows, seq>>
scanVars == <<scan_stack, scan_result, scans_done, first_ids>>
libVars == <<fsVars, catalogVars, scanVars>>
otherVars == <<sink_volume, libVars>>

Min(a, b) == IF a < b THEN a ELSE b

\* The cursor position the counted Next/Prev calls and completions add up to.
Count(exp, delta, len) ==
    IF exp = NoTrack \/ len = 0 THEN exp ELSE (exp + len + delta) % len

\* ---- pure helpers -------------------------------------------------------

\* `index as usize` followed by `index < state.tracks.len()`: a negative i32
\* casts to a value above any Vec length, so only 0 <= index < len passes.
IndexInRange_Inclusive(index, len) == index >= 0 /\ index <= len
IndexInRange(index, len) == index >= 0 /\ index < len

\* (state.current_index + 1) % state.tracks.len()
NextIndex_NoWrap(i, len) == i + 1
NextIndex(i, len) == (i + 1) % len

\* if current_index == 0 { len - 1 } else { current_index - 1 }
PrevIndex_NoWrap(i, len) == IF i = 0 THEN 0 ELSE i - 1
PrevIndex(i, len) == IF i = 0 THEN len - 1 ELSE i - 1

\* Sink section of play_file: stop() (empties the queue) when the sink is not
\* empty, then append(source).
SinkAfterPlay_NoStop(queue, source) == Append(queue, source)
SinkAfterPlay(queue, source) ==
    Append(IF queue # <<>> THEN <<>> ELSE queue, source)

\* !sink.empty()
SinkBusy(queue) == queue # <<>>

\* ---- initial state ------------------------------------------------------
PlayerInit ==
    /\ main_pc = "start"
    /\ ntracks \in 0..MaxTracks
    /\ readable \in SUBSET (0..(ntracks - 1))
    /\ current_index = 0
    /\ state_lock = "none"
    /\ sink_lock = "none"
    /\ sink_queue = <<>>
    /\ sink_paused = FALSE
    /\ is_paused = FALSE
    /\ pc = [t \in Threads |-> IF t = "ui" THEN "idle" ELSE "sleep"]
    /\ ui_op = "none"
    /\ ui_index = 0
    /\ pf_track = [t \in Threads |-> NoTrack]
    /\ pf_ok = [t \in Threads |-> FALSE]
    /\ pf_stopped = [t \in Threads |-> FALSE]
    /\ was_playing = FALSE
    /\ is_busy = FALSE
    /\ ui_title = NoTrack
    /\ event_queue = <<>>
    /\ error_log = 0
    /\ expected = 0
    /\ ticks = 0
    /\ user_acted = FALSE
    /\ advanced = TRUE
    /\ stopped = FALSE
    /\ observed = FALSE
    /\ sink_volume = UnitGain

\* The catalog of a fresh database (initialize_schema) and no scan running.
CatalogEmpty ==
    /\ artists = {}
    /\ albums = {}
    /\ track_rows = {}
    /\ seq = [artists |-> 0, albums |-> 0, tracks |-> 0]
    /\ scan_stack = <<>>
    /\ scan_result = "none"
    /\ scans_done = 0
    /\ first_ids = <<>>

Init ==
    /\ PlayerInit
    /\ unreadable_dirs = {}
    /\ bad_tags = {}
    /\ CatalogEmpty

\* ---- main(): play the first track --------------------------------------
\* engine.play_file(&uri)? : an Err leaves main() and ends the process before
\* the callbacks are connected and the poll loop is spawned.
PlayFirstTrack ==
    /\ main_pc = "start"
    /\ IF ntracks = 0
         THEN /\ main_pc' = "running"
              /\ UNCHANGED <<sink_queue, sink_paused, ui_title>>
         ELSE IF 0 \in readable
           THEN /\ main_pc' = "running"
                /\ sink_queue' = SinkAfterPlay(sink_queue, 0)
                /\ sink_paused' = FALSE
                /\ ui_title' = 0
           ELSE /\ main_pc' = "aborted"
                /\ UNCHANGED <<sink_queue, sink_paused, ui_title>>
    /\ UNCHANGED otherVars
    /\ UNCHANGED <<playlistVars, current_index, state_lock, sink_lock,
                   is_paused, pc, ui_op, ui_index, pfVars, pollVars,
                   event_queue, error_log, histVars>>

\* ---- AudioEngine::play_file, run by thread t ---------------------------
Call(t, track) ==
    /\ pf_track' = [pf_track EXCEPT ![t] = track]
    /\ pf_ok' = [pf_ok EXCEPT ![t] = FALSE]
    /\ pf_stopped' = [pf_stopped EXCEPT ![t] = FALSE]

Return(t) ==
    /\ pf_track' = [pf_track EXCEPT ![t] = NoTrack]
    /\ pf_ok' = [pf_ok EXCEPT ![t] = FALSE]
    /\ pf_stopped' = [pf_stopped EXCEPT ![t] = FALSE]

\* (variant: the sink is stopped before the file is opened)
PlayFileOpen_StopFirst(t) ==
    /\ main_pc = "running"
    /\ pc[t] = "pf_open"
    /\ pc' = [pc EXCEPT ![t] = IF pf_track[t] \in readable
                                 THEN "pf_wait" ELSE "pf_ret"]
    /\ sink_queue' = <<>>
    /\ UNCHANGED otherVars
    /\ UNCHANGED <<main_pc, playlistVars, current_index, state_lock,
                   sink_lock, sink_paused, is_paused, ui_op, ui_index, pfVars,
                   pollVars, ui_title, event_queue, error_log, histVars>>

\* File::open(path)? and Decoder::new(..)? : before the sink lock is taken
PlayFileOpen(t) ==
    /\ main_pc = "running"
    /\ pc[t] = "pf_open"
    /\ pc' = [pc EXCEPT ![t] = IF pf_track[t] \in readable
                                 THEN "pf_wait" ELSE "pf_ret"]
    /\ UNCHANGED otherVars
    /\ UNCHANGED <<main_pc, playlistVars, current_index, state_lock, sinkVars,
                   is_paused, ui_op, ui_index, pfVars, pollVars, ui_title,
                   event_queue, error_log, histVars>>

\* self.sink.lock().unwrap(), in play_file, pause, resume, stop and is_busy
WaitPcs == {"pf_wait", "pp_wait", "stop_wait", "sleep"}
Held(p) == CASE p = "pf_wait" -> "pf_sink"
             [] p = "pp_wait" -> "pp_sink"
             [] p = "stop_wait" -> "stop_sink"
             [] p = "sleep" -> "busy_sink"

SinkLock(t) ==
    /\ main_pc = "running"
    /\ pc[t] \in WaitPcs
    /\ sink_lock = "none"
    /\ sink_lock' = t
    /\ pc' = [pc EXCEPT ![t] = Held(pc[t])]
    /\ UNCHANGED otherVars
    /\ UNCHANGED <<main_pc, playlistVars, current_index, state_lock,
                   sink_queue, sink_paused, is_paused, ui_op, ui_index,
                   pfVars, pollVars, ui_title, event_queue, error_log,
                   histVars>>

\* if !sink.empty() { sink.stop() }; sink.append(source); sink.play(); Ok(())
PlayFileSink(t) ==
    /\ pc[t] = "pf_sink"
    /\ sink_lock = t
    /\ sink_queue' = SinkAfterPlay(sink_queue, pf_track[t])
    /\ sink_paused' = FALSE
    /\ sink_lock' = "none"
    /\ pf_ok' = [pf_ok EXCEPT ![t] = TRUE]
    /\ pf_stopped' = [pf_stopped EXCEPT ![t] = ~ (sink_queue = <<>>)]
    /\ pc' = [pc EXCEPT ![t] = "pf_ret"]
    /\ stopped' = FALSE
    /\ observed' = FALSE
    /\ UNCHANGED otherVars
    /\ UNCHANGED <<main_pc, playlistVars, current_index, state_lock,
                   is_paused, ui_op, ui_index, pf_track, pollVars, ui_title,
                   event_queue, error_log, expected, ticks, user_acted,
                   advanced>>

\* ---- ui.on_track_selected(index) ----------------------------------------
SelectArgs == (-1)..ntracks

UiTrackSelected(index) ==
    /\ main_pc = "running"
    /\ pc["ui"] = "idle"
    /\ pc' = [pc EXCEPT !["ui"] = "state_wait"]
    /\ ui_op' = "select"
    /\ ui_index' = index
    /\ user_acted' = TRUE
    /\ UNCHANGED <<observed, otherVars>>
    /\ UNCHANGED <<main_pc, playlistVars, current_index, state_lock, sinkVars,
                   is_paused, pfVars, pollVars, ui_title, event_queue,
                   error_log, expected, ticks, advanced, stopped>>

\* state_select.lock(); if index < state.tracks.len() { current_index = index; .. }
on_track_selected ==
    /\ pc["ui"] = "state_wait"
    /\ ui_op = "select"
    /\ state_lock = "none"
    /\ IF IndexInRange(ui_index, ntracks)
         THEN /\ state_lock' = "ui"
              /\ current_index' = ui_index
              /\ expected' = NoTrack
              /\ Call("ui", ui_index)
              /\ pc' = [pc EXCEPT !["ui"] = "pf_open"]
              /\ UNCHANGED ui_op
         ELSE /\ pc' = [pc EXCEPT !["ui"] = "idle"]
              /\ ui_op' = "none"
              /\ UNCHANGED <<state_lock, current_index, expected, pfVars>>
    /\ ui_index' = 0
    /\ UNCHANGED <<observed, otherVars>>
    /\ UNCHANGED <<main_pc, playlistVars, sinkVars, is_paused, pollVars,
                   ui_title, event_queue, error_log, ticks, user_acted,
                   advanced, stopped>>

\* if let Err(e) = play_file(..) { log::error!(..); return; } set_track_title(..)
on_track_selected_ret ==
    /\ pc["ui"] = "pf_ret"
    /\ ui_op = "select"
    /\ IF pf_ok["ui"]
         THEN /\ ui_title' = pf_track["ui"]
              /\ UNCHANGED error_log
         ELSE /\ error_log' = Min(error_log + 1, MaxLog)
              /\ UNCHANGED ui_title
    /\ state_lock' = "none"
    /\ Return("ui")
    /\ pc' = [pc EXCEPT !["ui"] = "idle"]
    /\ ui_op' = "none"
    /\ UNCHANGED otherVars
    /\ UNCHANGED <<main_pc, playlistVars, current_index, sinkVars, is_paused,
                   ui_index, pollVars, event_queue, histVars>>

\* ---- ui.on_next / ui.on_prev --------------------------------------------
UiNext ==
    /\ main_pc = "running"
    /\ pc["ui"] = "idle"
    /\ pc' = [pc EXCEPT !["ui"] = "state_wait"]
    /\ ui_op' = "next"
    /\ user_acted' = TRUE
    /\ UNCHANGED <<observed, otherVars>>
    /\ UNCHANGED <<main_pc, playlistVars, current_index, state_lock, sinkVars,
                   is_paused, ui_index, pfVars, pollVars, ui_title,
                   event_queue, error_log, expected, ticks, advanced, stopped>>

UiPrev ==
    /\ main_pc = "running"
    /\ pc["ui"] = "idle"
    /\ pc' = [pc EXCEPT !["ui"] = "state_wait"]
    /\ ui_op' = "prev"
    /\ user_acted' = TRUE
    /\ UNCHANGED <<observed, otherVars>>
    /\ UNCHANGED <<main_pc, playlistVars, current_index, state_lock, sinkVars,
                   is_paused, ui_index, pfVars, pollVars, ui_title,
                   event_queue, error_log, expected, ticks, advanced, stopped>>

\* The locked head of a navigation callback: early return on an empty
\* playlist, otherwise move the cursor to `target` and call play_file.
Navigate(target, exp) ==
    /\ state_lock = "none"
    /\ IF ntracks = 0
         THEN /\ pc' = [pc EXCEPT !["ui"] = "idle"]
              /\ ui_op' = "none"
              /\ UNCHANGED <<state_lock, current_index, expected, pfVars>>
         ELSE /\ state_lock' = "ui"
              /\ current_index' = target
              /\ expected' = exp
              /\ Call("ui", target)
              /\ pc' = [pc EXCEPT !["ui"] = "pf_open"]
              /\ UNCHANGED ui_op
    /\ UNCHANGED <<observed, otherVars>>
    /\ UNCHANGED <<main_pc, playlistVars, sinkVars, is_paused, ui_index,
                   pollVars, ui_title, event_queue, error_log, ticks,
                   user_acted, advanced, stopped>>

on_next ==
    /\ pc["ui"] = "state_wait"
    /\ ui_op = "next"
    /\ Navigate(IF ntracks = 0 THEN 0 ELSE NextIndex(current_index, ntracks),
                Count(expected, 1, ntracks))

on_prev ==
    /\ pc["ui"] = "state_wait"
    /\ ui_op = "prev"
    /\ Navigate(IF ntracks = 0 THEN 0 ELSE PrevIndex(current_index, ntracks),
                Count(expected, -1, ntracks))

\* let _ = play_file(&uri); set_track_title(..); set_track_artist(..)
on_next_ret ==
    /\ pc["ui"] = "pf_ret"
    /\ ui_op \in {"next", "prev"}
    /\ ui_title' = pf_track["ui"]
    /\ state_lock' = "none"
    /\ Return("ui")
    /\ pc' = [pc EXCEPT !["ui"] = "idle"]
    /\ ui_op' = "none"
    /\ UNCHANGED otherVars
    /\ UNCHANGED <<main_pc, playlistVars, current_index, sinkVars, is_paused,
                   ui_index, pollVars, event_queue, error_log, histVars>>

\* ---- ui.on_play_pause ---------------------------------------------------
UiPlayPause ==
    /\ main_pc = "running"
    /\ pc["ui"] = "idle"
    /\ pc' = [pc EXCEPT !["ui"] = "pp_wait"]
    /\ ui_op' = "play_pause"
    /\ user_acted' = TRUE
    /\ UNCHANGED <<observed, otherVars>>
    /\ UNCHANGED <<main_pc, playlistVars, current_index, state_lock, sinkVars,
                   is_paused, ui_index, pfVars, pollVars, ui_title,
                   event_queue, error_log, expected, ticks, advanced, stopped>>

\* if is_paused { engine.resume(); is_paused = false }
\* else { engine.pause(); is_paused = true }
on_play_pause ==
    /\ pc["ui"] = "pp_sink"
    /\ sink_lock = "ui"
    /\ sink_paused' = ~is_paused
    /\ is_paused' = ~is_paused
    /\ sink_lock' = "none"
    /\ pc' = [pc EXCEPT !["ui"] = "idle"]
    /\ ui_op' = "none"
    /\ UNCHANGED otherVars
    /\ UNCHANGED <<main_pc, playlistVars, current_index, state_lock,
                   sink_queue, ui_index, pfVars, pollVars, ui_title,
                   event_queue, error_log, histVars>>

\* ---- the event loop runs a closure queued by invoke_from_event_loop -----
EventLoopRun ==
    /\ main_pc = "running"
    /\ pc["ui"] = "idle"
    /\ event_queue # <<>>
    /\ ui_title' = Head(event_queue)
    /\ event_queue' = Tail(event_queue)
    /\ UNCHANGED otherVars
    /\ UNCHANGED <<main_pc, playlistVars, current_index, state_lock, sinkVars,
                   is_paused, pc, ui_op, ui_index, pfVars, pollVars,
                   error_log, histVars>>

\* ---- the auto-advance loop ----------------------------------------------
\* (variant: the guard of the sink mutex is kept across the state lock)
PollIsBusy_KeepsSinkLock ==
    /\ pc["poll"] = "busy_sink"
    /\ sink_lock = "poll"
    /\ is_busy' = SinkBusy(sink_queue)
    /\ observed' = (observed \/ SinkBusy(sink_queue))
    /\ IF was_playing /\ ~SinkBusy(sink_queue)
         THEN /\ pc' = [pc EXCEPT !["poll"] = "state_wait"]
              /\ UNCHANGED <<was_playing, ticks, sink_lock>>
         ELSE /\ pc' = [pc EXCEPT !["poll"] = "sleep"]
              /\ was_playing' = SinkBusy(sink_queue)
              /\ ticks' = Min(ticks + 1, MaxTicks)
              /\ sink_lock' = "none"
    /\ UNCHANGED otherVars
    /\ UNCHANGED <<main_pc, playlistVars, current_index, state_lock,
                   sink_queue, sink_paused, is_paused, ui_op, ui_index,
                   pfVars, ui_title, event_queue, error_log, expected,
                   user_acted, advanced, stopped>>

\* let is_busy = engine_poll.is_busy(); if was_playing && !is_busy { .. }
\* (the branch not taken ends the iteration: was_playing = is_busy)
PollIsBusy ==
    /\ pc["poll"] = "busy_sink"
    /\ sink_lock = "poll"
    /\ sink_lock' = "none"
    /\ is_busy' = SinkBusy(sink_queue)
    /\ observed' = (observed \/ SinkBusy(sink_queue))
    /\ IF was_playing /\ ~SinkBusy(sink_queue)
         THEN /\ pc' = [pc EXCEPT !["poll"] = "state_wait"]
              /\ UNCHANGED <<was_playing, ticks>>
         ELSE /\ pc' = [pc EXCEPT !["poll"] = "sleep"]
              /\ was_playing' = SinkBusy(sink_queue)
              /\ ticks' = Min(ticks + 1, MaxTicks)
    /\ UNCHANGED otherVars
    /\ UNCHANGED <<main_pc, playlistVars, current_index, state_lock,
                   sink_queue, sink_paused, is_paused, ui_op, ui_index,
                   pfVars, ui_title, event_queue, error_log, expected,
                   user_acted, advanced, stopped>>

\* state_poll.lock(); if !tracks.is_empty() { current_index = (..+1) % len; .. }
PollAdvance ==
    /\ pc["poll"] = "state_wait"
    /\ state_lock = "none"
    /\ Len(event_queue) < MaxPending
    /\ IF ntracks = 0
         THEN /\ pc' = [pc EXCEPT !["poll"] = "sleep"]
              /\ was_playing' = is_busy
              /\ ticks' = Min(ticks + 1, MaxTicks)
              /\ UNCHANGED <<state_lock, current_index, pfVars, advanced>>
         ELSE /\ state_lock' = "poll"
              /\ current_index' = NextIndex(current_index, ntracks)
              /\ Call("poll", NextIndex(current_index, ntracks))
              /\ pc' = [pc EXCEPT !["poll"] = "pf_open"]
              /\ advanced' = TRUE
              /\ UNCHANGED <<was_playing, ticks>>
    /\ UNCHANGED <<observed, otherVars>>
    /\ UNCHANGED <<main_pc, playlistVars, sinkVars, is_paused, ui_op,
                   ui_index, is_busy, ui_title, event_queue, error_log,
                   expected, user_acted, stopped>>

\* let _ = play_file(&uri); invoke_from_event_loop(..); (lock dropped)
\* was_playing = is_busy
PollRet ==
    /\ pc["poll"] = "pf_ret"
    /\ event_queue' = Append(event_queue, pf_track["poll"])
    /\ state_lock' = "none"
    /\ Return("poll")
    /\ was_playing' = is_busy
    /\ ticks' = Min(ticks + 1, MaxTicks)
    /\ pc' = [pc EXCEPT !["poll"] = "sleep"]
    /\ UNCHANGED <<observed, otherVars>>
    /\ UNCHANGED <<main_pc, playlistVars, current_index, sinkVars, is_paused,
                   ui_op, ui_index, is_busy, ui_title, error_log, expected,
                   user_acted, advanced, stopped>>

\* ---- the audio thread: the audible source reaches its end --------------
TrackCompletes ==
    /\ sink_queue # <<>>
    /\ ~sink_paused
    /\ sink_queue' = Tail(sink_queue)
    /\ expected' = IF state_lock = "none"
                      THEN Count(expected, 1, ntracks) ELSE expected
    /\ advanced' = FALSE
    /\ UNCHANGED <<observed, otherVars>>
    /\ UNCHANGED <<main_pc, playlistVars, current_index, state_lock,
                   sink_lock, sink_paused, is_paused, pc, ui_op, ui_index,
                   pfVars, pollVars, ui_title, event_queue, error_log, ticks,
                   user_acted, stopped>>

\* ---- the scripting host: the `player` global (ScriptableAudioEngine) ----
\* player:play_file(uri) -> this.0.play_file(&uri)
ScriptPlayFile(track) ==
    /\ main_pc = "running"
    /\ pc["ui"] = "idle"
    /\ Call("ui", track)
    /\ pc' = [pc EXCEPT !["ui"] = "pf_open"]
    /\ ui_op' = "script"
    /\ UNCHANGED otherVars
    /\ UNCHANGED <<main_pc, playlistVars, current_index, state_lock, sinkVars,
                   is_paused, ui_index, pollVars, ui_title, event_queue,
                   error_log, histVars>>

ScriptPlayFileRet ==
    /\ pc["ui"] = "pf_ret"
    /\ ui_op = "script"
    /\ Return("ui")
    /\ pc' = [pc EXCEPT !["ui"] = "idle"]
    /\ ui_op' = "none"
    /\ UNCHANGED otherVars
    /\ UNCHANGED <<main_pc, playlistVars, current_index, state_lock, sinkVars,
                   is_paused, ui_index, pollVars, ui_title, event_queue,
                   error_log, histVars>>

\* player:stop() -> this.0.stop()
ScriptStop ==
    /\ main_pc = "running"
    /\ pc["ui"] = "idle"
    /\ pc' = [pc EXCEPT !["ui"] = "stop_wait"]
    /\ ui_op' = "script"
    /\ UNCHANGED otherVars
    /\ UNCHANGED <<main_pc, playlistVars, current_index, state_lock, sinkVars,
                   is_paused, ui_index, pfVars, pollVars, ui_title,
                   event_queue, error_log, histVars>>

\* AudioEngine::stop: self.sink.lock().unwrap().stop()
AudioStop ==
    /\ pc["ui"] = "stop_sink"
    /\ sink_lock = "ui"
    /\ sink_queue' = <<>>
    /\ stopped' = TRUE
    /\ sink_lock' = "none"
    /\ pc' = [pc EXCEPT !["ui"] = "idle"]
    /\ ui_op' = "none"
    /\ UNCHANGED <<observed, otherVars>>
    /\ UNCHANGED <<main_pc, playlistVars, current_index, state_lock,
                   sink_paused, is_paused, ui_index, pfVars, pollVars,
                   ui_title, event_queue, error_log, expected, ticks,
                   user_acted, advanced>>

\* ---- specifications -----------------------------------------------------
UiCommand ==
    \/ \E index \in SelectArgs : UiTrackSelected(index)
    \/ UiNext
    \/ UiPrev
    \/ UiPlayPause

UiStep ==
    \/ on_track_selected
    \/ on_track_selected_ret
    \/ on_next
    \/ on_prev
    \/ on_next_ret
    \/ on_play_pause
    \/ PlayFileOpen("ui")
    \/ SinkLock("ui")
    \/ PlayFileSink("ui")
    \/ EventLoopRun

PollStep ==
    \/ SinkLock("poll")
    \/ PollIsBusy
    \/ PollAdvance
    \/ PlayFileOpen("poll")
    \/ PlayFileSink("poll")
    \/ PollRet

ScriptStep ==
    \/ \E track \in 0..(ntracks - 1) : ScriptPlayFile(track)
    \/ ScriptPlayFileRet
    \/ ScriptStop
    \/ AudioStop

Next ==
    \/ PlayFirstTrack
    \/ UiCommand
    \/ UiStep
    \/ PollStep
    \/ TrackCompletes

Spec == Init /\ [][Next]_vars

\* The program with a script driving the registered `player` global.
NextScript == Next \/ ScriptStep

SpecScript == Init /\ [][NextScript]_vars

\* The poll loop and the audio thread keep being scheduled; a callback that
\* waits for a mutex gets it (the poll loop sleeps a second between two
\* acquisitions); the user is free to issue no further command.
FairSpec ==
    Spec /\ WF_vars(PollStep) /\ SF_vars(UiStep) /\ WF_vars(TrackCompletes)

TypeOK ==
    /\ main_pc \in {"start", "running", "aborted"}
    /\ ntracks \in 0..MaxTracks
    /\ state_lock \in {"none", "ui", "poll"}
    /\ sink_lock \in {"none", "ui", "poll"}
    /\ sink_paused \in BOOLEAN
    /\ is_paused \in BOOLEAN
    /\ ui_title \in (-1)..(MaxTracks - 1)
    /\ Len(event_queue) <= MaxPending

\* ---- LibraryManager: the catalog and scan_directory ---------------------
playerVars ==
    <<main_pc, playlistVars, current_index, state_lock, sinkVars, is_paused,
      pc, ui_op, ui_index, pfVars, pollVars, ui_title, event_queue,
      error_log, histVars>>

\* The directory tree that is scanned; Listing is the order read_dir yields.
Root == "music"
Dirs == {"music", "music/sub"}
Listing(dir) ==
    IF dir = "music"
      THEN <<"music/a.mp3", "music/sub", "music/b.flac", "music/notes.txt">>
      ELSE <<"music/sub/c.mp3">>
Files == {"music/a.mp3", "music/b.flac", "music/notes.txt", "music/sub/c.mp3"}
Parents(path) ==
    IF path = "music/sub/c.mp3" THEN {"music", "music/sub"} ELSE {"music"}

\* path.extension() and path.file_stem()
Extension(path) ==
    CASE path = "music/a.mp3" -> "mp3"
      [] path = "music/b.flac" -> "flac"
      [] path = "music/notes.txt" -> "txt"
      [] path = "music/sub/c.mp3" -> "mp3"
      [] OTHER -> "none"
FileStem(path) ==
    CASE path = "music/a.mp3" -> "a"
      [] path = "music/b.flac" -> "b"
      [] path = "music/notes.txt" -> "notes"
      [] path = "music/sub/c.mp3" -> "c"
      [] OTHER -> "none"

\* matches!(extension, Some("mp3") | Some("flac") | Some("wav") | Some("m4a") | Some("ogg"))
is_audio_file(path) == Extension(path) \in {"mp3", "flac", "wav", "m4a", "ogg"}
AudioFiles == {f \in Files : is_audio_file(f)}

\* The tag lofty reads from each file; "none" is an absent field.
Tag(path) ==
    CASE path = "music/a.mp3" -> [title |-> "Intro", artist |-> "Ana", album |-> "Live"]
      [] path = "music/b.flac" -> [title |-> "none", artist |-> "Ana", album |-> "Live"]
      [] OTHER -> [title |-> "Coda", artist |-> "none", album |-> "Live"]

\* title / artist / album of add_track, with their fallbacks
TrackTitle(path) ==
    IF Tag(path).title = "none" THEN FileStem(path) ELSE Tag(path).title
ArtistName(path) ==
    IF Tag(path).artist = "none" THEN "Unknown Artist" ELSE Tag(path).artist
AlbumTitle(path) ==
    IF Tag(path).album = "none" THEN "Unknown Album" ELSE Tag(path).album

\* INSERT OR IGNORE INTO artists (name): name is UNIQUE, id AUTOINCREMENT
ArtistsAfter(rows, last, name) ==
    IF \E r \in rows : r.name = name
      THEN rows
      ELSE rows \cup {[id |-> last + 1, name |-> name]}
\* SELECT id FROM artists WHERE name = ?1
ArtistIdOf(rows, name) == (CHOOSE r \in rows : r.name = name).id

\* INSERT OR IGNORE INTO albums (title, artist_id): UNIQUE(title, artist_id)
AlbumsAfter(rows, last, title, artist_id) ==
    IF \E r \in rows : r.title = title /\ r.artist_id = artist_id
      THEN rows
      ELSE rows \cup {[id |-> last + 1, title |-> title,
                       artist_id |-> artist_id]}
\* SELECT id FROM albums WHERE title = ?1 AND artist_id = ?2
AlbumIdOf(rows, title, artist_id) ==
    (CHOOSE r \in rows : r.title = title /\ r.artist_id = artist_id).id

\* INSERT OR REPLACE INTO tracks (path, ..): path is UNIQUE, so the row that
\* holds the path is deleted and a new row gets the next AUTOINCREMENT id.
TracksAfter_Duplicate(rows, last, path, title, artist_id, album_id) ==
    rows \cup {[id |-> last + 1, path |-> path, title |-> title,
                artist_id |-> artist_id, album_id |-> album_id]}
TracksAfter(rows, last, path, title, artist_id, album_id) ==
    {r \in rows : r.path # path}
        \cup {[id |-> last + 1, path |-> path, title |-> title,
               artist_id |-> artist_id, album_id |-> album_id]}

\* LibraryManager::add_track: Err (nothing written) when the file's tags
\* cannot be read, otherwise the three statements above.
add_track(path) ==
    IF path \in bad_tags
      THEN UNCHANGED catalogVars
      ELSE LET newArtists == ArtistsAfter(artists, seq.artists, ArtistName(path))
               artist_id == ArtistIdOf(newArtists, ArtistName(path))
               newAlbums == AlbumsAfter(albums, seq.albums, AlbumTitle(path),
                                        artist_id)
               album_id == AlbumIdOf(newAlbums, AlbumTitle(path), artist_id)
           IN /\ artists' = newArtists
              /\ albums' = newAlbums
              /\ track_rows' = TracksAfter(track_rows, seq.tracks, path,
                                           TrackTitle(path), artist_id,
                                           album_id)
              /\ seq' = [artists |-> IF newArtists = artists
                                       THEN seq.artists ELSE seq.artists + 1,
                         albums |-> IF newAlbums = albums
                                      THEN seq.albums ELSE seq.albums + 1,
                         tracks |-> seq.tracks + 1]

TrackIds(rows) == [p \in {r.path : r \in rows} |-> (CHOOSE r \in rows : r.path = p).id]

\* The outermost scan_directory call returns `result`.
ScanReturns(result) ==
    /\ scan_stack' = <<>>
    /\ scan_result' = result
    /\ scans_done' = Min(scans_done + 1, 2)
    /\ first_ids' = IF scans_done = 0 THEN TrackIds(track_rows) ELSE first_ids

\* library.scan_directory(root): if path.is_dir() { read_dir(path)? .. }
ScanStart ==
    /\ scan_stack = <<>>
    /\ seq.tracks < MaxRowId
    /\ IF Root \in unreadable_dirs
         THEN ScanReturns("err")
         ELSE /\ scan_stack' = <<[dir |-> Root, pos |-> 1]>>
              /\ UNCHANGED <<scan_result, scans_done, first_ids>>
    /\ UNCHANGED <<playerVars, sink_volume, fsVars, catalogVars>>

\* One iteration of `for entry in read_dir(path)?` in the innermost call: a
\* subdirectory is scanned with `?` (an Err returns from every enclosing
\* call), an audio file is added and its Err only logged, anything else is
\* skipped; after the last entry the call returns Ok(()).
ScanStep ==
    /\ scan_stack # <<>>
    /\ LET depth == Len(scan_stack)
           top == scan_stack[depth]
           entries == Listing(top.dir)
           rest == [scan_stack EXCEPT ![depth].pos = top.pos + 1]
       IN IF top.pos > Len(entries)
            THEN /\ IF depth = 1
                      THEN ScanReturns("ok")
                      ELSE /\ scan_stack' = SubSeq(scan_stack, 1, depth - 1)
                           /\ UNCHANGED <<scan_result, scans_done, first_ids>>
                 /\ UNCHANGED catalogVars
            ELSE LET entry == entries[top.pos]
                 IN IF entry \in Dirs
                      THEN /\ IF entry \in unreadable_dirs
                                THEN ScanReturns("err")
                                ELSE /\ scan_stack' =
                                          Append(rest, [dir |-> entry, pos |-> 1])
                                     /\ UNCHANGED <<scan_result, scans_done,
                                                    first_ids>>
                           /\ UNCHANGED catalogVars
                      ELSE /\ scan_stack' = rest
                           /\ UNCHANGED <<scan_result, scans_done, first_ids>>
                           /\ IF is_audio_file(entry)
                                THEN add_track(entry)
                                ELSE UNCHANGED catalogVars
    /\ UNCHANGED <<playerVars, sink_volume, fsVars>>

\* library.add_track(path), called outside a scan
AddTrackCall(path) ==
    /\ scan_stack = <<>>
    /\ seq.tracks < MaxRowId
    /\ add_track(path)
    /\ UNCHANGED <<playerVars, sink_volume, fsVars, scanVars>>

LibInit ==
    /\ PlayerInit
    /\ ntracks = 0
    /\ unreadable_dirs \in SUBSET Dirs
    /\ bad_tags \in SUBSET AudioFiles
    /\ CatalogEmpty

LibNext ==
    \/ ScanStart
    \/ ScanStep
    \/ \E path \in AudioFiles : AddTrackCall(path)

SpecLibrary == LibInit /\ [][LibNext]_vars

\* ---- AudioEngine::set_volume --------------------------------------------
VolumeLevels == (0 - MaxBelow)..MaxLevel

\* self.sink.lock().unwrap().set_volume(volume): the Sink stores the value
\* as its gain.
GainAfter_Clamped(volume) ==
    IF volume > UnitGain THEN UnitGain ELSE IF volume < 0 THEN 0 ELSE volume
GainAfter(volume) == volume

set_volume(volume) ==
    /\ sink_lock = "none"
    /\ sink_volume' = GainAfter(volume)
    /\ UNCHANGED <<playerVars, libVars>>

VolumeNext == \E volume \in VolumeLevels : set_volume(volume)

SpecVolume == Init /\ [][VolumeNext]_vars

\* ---- properties ---------------------------------------------------------
Running == main_pc = "running"
Quiescent == pc["ui"] = "idle" /\ pc["poll"] = "sleep" /\ state_lock = "none"
AllReadable == readable = 0..(ntracks - 1)
InPlayFile(t) == pc[t] \in {"pf_open", "pf_wait", "pf_sink"}
PollAdvances == pc["poll"] = "state_wait" /\ pc'["poll"] = "pf_open"
Toggles == pc["ui"] = "pp_sink" /\ pc'["ui"] = "idle"
PollDispatchFailed == pc["poll"] = "pf_ret" /\ ~pf_ok["poll"]

\* C1: with every track readable, once no callback or tick is in flight and
\* a track is loaded in the sink, the cursor has moved by exactly
\* (Next calls - Prev calls + natural completions) modulo the playlist
\* length: no completion is dropped and none is counted twice.  (A completion
\* is counted when it happens while no dispatch is in flight.)
C1_NoLostOrDoubleAdvance ==
    (Running /\ ntracks >= 1 /\ AllReadable /\ Quiescent /\ sink_queue # <<>>
       /\ expected # NoTrack)
        => current_index = expected

\* C2: whenever the playlist is non-empty, a track has been dispatched and no
\* transition is in flight, a track loaded in the sink is the track at the
\* cursor, also after a play_file that failed.
C2_LoadedIsCursor ==
    (Running /\ ntracks > 0 /\ state_lock = "none")
        => sink_queue \in {<<>>, <<current_index>>}

\* C3: with a non-empty playlist the cursor is a valid index, 0 <= cursor < len,
\* in every reachable state.
C3_CursorInRange ==
    ntracks > 0 => (current_index >= 0 /\ current_index < ntracks)

\* A Next from the last index of the longest playlist has wrapped to 0.
C3_Witness ==
    /\ ntracks = MaxTracks
    /\ ui_op = "next"
    /\ pc["ui"] = "pf_open"
    /\ current_index = 0

\* C4: the poll tick never advances while playback is paused or stopped, and
\* never advances twice for one completion.
C4_NoAdvanceWhilePaused ==
    [][PollAdvances => (~(is_paused /\ sink_paused) /\ ~stopped /\ ~advanced)]_vars

\* C5: after a dispatch by the poll loop failed, the poll loop advances again
\* on a later tick, and a playlist with a readable track eventually has a
\* readable track loaded.
C5_FailedDispatchAdvancesAgain ==
    /\ PollDispatchFailed ~> (pc["poll"] = "pf_open")
    /\ (PollDispatchFailed /\ readable # {})
          ~> (sink_queue # <<>> /\ Head(sink_queue) \in readable)

\* C6: loading [bad, good] does not abort the player; one poll tick after the
\* load, with no user command, the cursor is at 1, good is in the sink and
\* exactly one failure was reported.
C6_BadGoodRecovers ==
    (ntracks = 2 /\ readable = {1} /\ main_pc # "start")
        => /\ main_pc = "running"
           /\ (ticks = 1 /\ ~user_acted /\ pc["poll"] = "sleep")
                 => (current_index = 1 /\ sink_queue = <<1>> /\ error_log = 1)

\* C7: the sink never holds more than one source, and a successful play_file
\* leaves exactly the new source in it.
C7_SingleSource ==
    /\ [](Len(sink_queue) <= 1)
    /\ [][\A t \in Threads :
            (pc[t] = "pf_sink" /\ pc'[t] = "pf_ret")
                => sink_queue' = <<pf_track[t]>>]_vars

\* A play_file that found a source in the sink has just replaced it.
C7_Witness ==
    \E t \in Threads :
        /\ pc[t] = "pf_ret"
        /\ pf_ok[t]
        /\ pf_stopped[t]
        /\ sink_queue = <<pf_track[t]>>

\* C8: at most one play_file call is outstanding at any time, and every
\* caller of play_file, the script's player object included, holds the lock
\* that guards the playlist state.
C8_DispatchSerialized ==
    /\ ~(InPlayFile("ui") /\ InPlayFile("poll"))
    /\ \A t \in Threads : InPlayFile(t) => state_lock = t

\* C9: a play/pause toggle flips the sink: it pauses a playing sink and
\* resumes a paused one, also after a Next/Prev/Select issued while paused.
C9_ToggleFlipsSink ==
    [][Toggles => (sink_paused' = ~sink_paused)]_vars

\* C10: once no transition is in flight and no queued update is pending, the
\* title/artist shown is that of the track at the cursor.
C10_TitleIsCursor ==
    (Running /\ ntracks > 0 /\ pc["ui"] = "idle" /\ state_lock = "none"
       /\ event_queue = <<>>)
        => ui_title = current_index

\* ---- properties of the callbacks ----------------------------------------
OutOfRangeSelect ==
    /\ pc["ui"] = "state_wait"
    /\ ui_op = "select"
    /\ pc'["ui"] # "state_wait"
    /\ ~(ui_index >= 0 /\ ui_index < ntracks)
NextMoves == pc["ui"] = "state_wait" /\ ui_op = "next" /\ pc'["ui"] = "pf_open"
PrevMoves == pc["ui"] = "state_wait" /\ ui_op = "prev" /\ pc'["ui"] = "pf_open"
FailureReturns(t) == pc[t] = "pf_ret" /\ ~pf_ok[t] /\ pc'[t] # "pf_ret"
Reported == error_log < MaxLog => error_log' = error_log + 1

\* C11: on an empty playlist Next, Prev and play/pause change nothing: the
\* cursor, the sink's queue and paused state and the paused flag stay as
\* they are.
C11_EmptyPlaylistNoOp ==
    [][ntracks = 0
         => UNCHANGED <<current_index, sink_queue, sink_paused, is_paused>>]_vars

\* C12: a Select with an index outside the playlist reports an error and
\* changes neither the cursor, nor the sink's source, nor the track shown.
C12_SelectOutOfRange ==
    [][OutOfRangeSelect
         => (UNCHANGED <<current_index, sink_queue, ui_title>> /\ Reported)]_vars

\* C13: Next from the last index moves the cursor to 0 and from any other
\* index adds 1; Prev from index 0 moves it to len - 1 and from any other
\* index subtracts 1.
C13_Wraparound ==
    [][/\ NextMoves => current_index' = IF current_index = ntracks - 1
                                          THEN 0 ELSE current_index + 1
       /\ PrevMoves => current_index' = IF current_index = 0
                                          THEN ntracks - 1
                                          ELSE current_index - 1]_vars

\* A Prev from index 0 of the longest playlist has wrapped to the last index.
C13_Witness ==
    /\ ntracks = MaxTracks
    /\ ui_op = "prev"
    /\ pc["ui"] = "pf_open"
    /\ current_index = ntracks - 1

\* C14: every dispatch whose play_file fails and every out-of-range Select
\* produces a failure report.
C14_FailuresReported ==
    [][((\E t \in Threads : FailureReturns(t)) \/ OutOfRangeSelect)
         => Reported]_vars

\* C19: the poll loop advances only after a tick has observed the sink busy
\* with the track of the last dispatch loaded.
C19_AdvanceOnlyAfterObservedBusy ==
    [][PollAdvances => observed]_vars

\* C20: with every track readable and no user command, whenever the sink is
\* idle the poll loop eventually loads the next track.
C20_AutoAdvanceNeverHalts ==
    (Running /\ ntracks > 0 /\ AllReadable /\ ~user_acted /\ sink_queue = <<>>)
        ~> (sink_queue # <<>> \/ user_acted)

\* ---- properties of the library and of the volume ------------------------
RowPaths == {r.path : r \in track_rows}
ScanFinishes == scan_stack # <<>> /\ scan_stack' = <<>>
RescanStep == scans_done >= 1 /\ scan_stack # <<>>
Reachable(path) == Parents(path) \cap unreadable_dirs = {}

\* C15: when the second scan of the directory finishes, every track has the
\* id it had when the first scan finished (both scans returning Ok).
C15_RescanKeepsIds ==
    [][(ScanFinishes /\ scans_done = 1 /\ scan_result = "ok"
          /\ scan_result' = "ok")
         => \A p \in DOMAIN first_ids :
              p \in DOMAIN TrackIds(track_rows')
                 /\ TrackIds(track_rows')[p] = first_ids[p]]_vars

\* C16: the catalog holds at most one track row per path, one artist row per
\* name and one album row per (title, artist), and no step of a re-scan
\* increases a row count.
C16_NoDuplicateRows ==
    /\ [](/\ \A r1, r2 \in track_rows : r1.path = r2.path => r1 = r2
          /\ \A r1, r2 \in artists : r1.name = r2.name => r1 = r2
          /\ \A r1, r2 \in albums :
                (r1.title = r2.title /\ r1.artist_id = r2.artist_id) => r1 = r2)
    /\ [][RescanStep
            => /\ Cardinality(track_rows') <= Cardinality(track_rows)
               /\ Cardinality(artists') <= Cardinality(artists)
               /\ Cardinality(albums') <= Cardinality(albums)]_vars

\* A second scan has finished over a catalog that holds every audio file,
\* two artists and two albums of the same title.
C16_Witness ==
    /\ scans_done = 2
    /\ scan_stack = <<>>
    /\ RowPaths = AudioFiles
    /\ Cardinality(artists) = 2
    /\ Cardinality(albums) = 2

\* C17: after a scan, every audio file whose tags can be read and whose
\* directories can be read is in the catalog, whatever failed elsewhere.
C17_ScanSkipsOnlyFailures ==
    (scans_done >= 1 /\ scan_stack = <<>>)
        => \A f \in AudioFiles :
             (f \notin bad_tags /\ Reachable(f)) => f \in RowPaths

\* C18: set_volume(v) leaves the gain at 1.0 for v > 1.0, at 0.0 for v < 0.0
\* and at v otherwise.
C18_VolumeClamped ==
    [][\A v \in VolumeLevels :
         set_volume(v)
            => sink_volume' = IF v > UnitGain THEN UnitGain
                              ELSE IF v < 0 THEN 0 ELSE v]_vars

\* ---- properties of the locks --------------------------------------------
SinkSections == {"pf_sink", "pp_sink", "stop_sink", "busy_sink"}
WantsLock(t) == pc[t] = "state_wait" \/ pc[t] \in WaitPcs
FailsToOpen(t) == pc[t] = "pf_open" /\ pc'[t] = "pf_ret"

\* C21: the lock that guards the playlist state is not held while play_file
\* opens and decodes a file.
C21_NoIoUnderStateLock ==
    \A t \in Threads : pc[t] = "pf_open" => state_lock # t

\* C22: a play_file that fails leaves the sink as it was: the loaded source,
\* the paused state and is_busy() are unchanged and the sink lock is not held
\* by the caller.
C22_FailedPlayLeavesSink ==
    [][\A t \in Threads :
         FailsToOpen(t)
            => /\ sink_queue' = sink_queue
               /\ sink_paused' = sink_paused
               /\ SinkBusy(sink_queue') = SinkBusy(sink_queue)
               /\ sink_lock' # t]_vars

\* A play_file has failed while a paused source was loaded, and it is still
\* loaded and paused.
C22_Witness ==
    \E t \in Threads :
        /\ pc[t] = "pf_ret"
        /\ ~pf_ok[t]
        /\ sink_queue # <<>>
        /\ sink_paused
        /\ sink_lock = "none"

\* C23: the sink mutex is taken alone or while holding the player-state
\* mutex, never the other way round, and whenever a thread wants a lock some
\* thread can take a step.
C23_NoDeadlock ==
    /\ \A t \in Threads : pc[t] = "state_wait" => sink_lock # t
    /\ \A t \in Threads : sink_lock = t => pc[t] \in SinkSections
    /\ (Running /\ \E t \in Threads : WantsLock(t))
          => ENABLED (UiStep \/ PollStep)

\* A callback holds the player-state mutex and waits for the sink mutex,
\* which the poll loop holds for is_busy().
C23_Witness ==
    /\ state_lock = "ui"
    /\ pc["ui"] = "pf_wait"
    /\ sink_lock = "poll"
    /\ pc["poll"] = "busy_sink"

====
